---- MODULE Spec2Model ----
(***************************************************************************)
(* Model of the video compliance pipeline of towa-backend                  *)
(* (src/routers/twelvelabs_router.py): the metadata extractor, the         *)
(* requirements validator, the closest-ratio resolver and the orchestrator *)
(* process_and_validate_video with the temp files it creates; and of the   *)
(* persona search and persona responses of src/main.py: the upsert of      *)
(* save_persona_to_supabase, the polling of wait_for_webset_completion,    *)
(* the search endpoint with its background task do_search, and the         *)
(* persona_responses endpoint with its gathered coroutines.                *)
(*                                                                         *)
(* Representation choices:                                                 *)
(*  - the time of a wait is counted in poll intervals;                     *)
(*  - an absent value (None) of a response is the empty sequence;          *)
(*  - a duration is a whole number of milliseconds (the code holds a float *)
(*    number of seconds), so MIN_DURATION and MAX_DURATION are compared    *)
(*    as Seconds(MIN_DURATION) and Seconds(MAX_DURATION);                  *)
(*  - a file size in bytes is the pair <<MiB, bytes below one MiB>>, since *)
(*    2 GiB does not fit the 32-bit integers of the model checker;         *)
(*  - the aspect ratio string "W:H" is the pair <<W, H>> (the formatting   *)
(*    is injective) and "unknown" is Unknown, the pair <<0, 0>>, which no  *)
(*    positive width and height produce;                                   *)
(*  - a formatted message is the record of its fixed text and the values   *)
(*    formatted into it;                                                   *)
(*  - the quotients and differences find_closest_aspect_ratio computes in  *)
(*    floating point are IEEE 754 doubles, held as bit sequences on a      *)
(*    fixed binary grid and rounded to 53 significant bits, to nearest,    *)
(*    ties to even;                                                        *)
(*  - the scale factors, whose comparisons are between values far apart    *)
(*    and whose products are whole numbers, are exact rationals            *)
(*    <<numerator, denominator>>.                                          *)
(***************************************************************************)
EXTENDS Integers, Sequences, FiniteSets, TLC

VARIABLES
    pc,               \* position of the current run of process_and_validate_video
    runs,             \* number of runs started so far
    input_path,       \* local variable input_path
    output_path,      \* local variable output_path
    disk,             \* the temp directory: existing path -> content
    created,          \* the temp files this run has created
    metadata,         \* local variable metadata
    validation,       \* local variable validation
    transformations,  \* local variable transformations
    new_metadata,     \* local variable new_metadata
    new_validation,   \* local variable new_validation
    response,         \* what the run gave to its caller: a path or an HTTPException
    history,          \* the pipeline states this run has entered, in order
    ffmpegCalls,      \* invocations of transform_video_with_ffmpeg in this run
    ffprobeCalls,     \* invocations of get_video_metadata in this run
    closestCalls,     \* invocations of find_closest_aspect_ratio in this run
    unit_in,          \* argument of a direct call of validate_video_requirements
    unit_out,         \* its result
    closest_in,       \* arguments of a direct call of find_closest_aspect_ratio
    closest_out,      \* its result
    probe_in,         \* the parsed ffprobe output of a direct call of get_video_metadata
    probe_out,        \* its result
    cmd_in,           \* transformations of a direct call of transform_video_with_ffmpeg
    cmd_out,          \* the argument list it runs ffmpeg with
    transform_out,    \* what the tool did in that call, and how the call ended
    supabase,         \* main.py: whether the module-level Supabase client is configured
    persona,          \* the rows of the persona table, in insertion order
    search_response,  \* what the search endpoint returned
    task_pc,          \* position of the background task do_search
    max_wait_time,    \* argument of wait_for_webset_completion, in poll intervals
    elapsed,          \* time.time() - start_time, in poll intervals
    observed,         \* the passes of the polling loop so far, and what each met
    status_requests,  \* calls of get_webset_status made by the wait
    wait_result,      \* how wait_for_webset_completion ended
    task_response,    \* what do_search returned
    synced,           \* whether the job's personas_synced_at has been written
    savers,           \* the calls of save_persona_to_supabase running side by side
    anthropic_client, \* whether the module-level Anthropic client is configured
    resp_pc,          \* position of a request to the persona_responses endpoint
    coroutines,       \* persona id -> position of its generate_persona_response
    persona_responses, \* the rows of the persona_responses table: persona ids
    resp_response,    \* what the persona_responses endpoint answered
    storage           \* which fetch_video_blob_from_storage is in place

pipeVars == <<pc, runs, input_path, output_path, disk, created, metadata,
              validation, transformations, new_metadata, new_validation,
              response, history, ffmpegCalls, ffprobeCalls, closestCalls>>
directVars == <<unit_in, unit_out, closest_in, closest_out, probe_in, probe_out,
                cmd_in, cmd_out, transform_out>>
searchVars == <<search_response, task_pc, max_wait_time, elapsed, observed,
                status_requests, wait_result, task_response, synced>>
saveVars == <<savers>>
respVars == <<anthropic_client, resp_pc, coroutines, persona_responses, resp_response>>
webVars == <<supabase, persona, searchVars, saveVars, respVars>>
envVars == <<storage>>
unitVars == <<directVars, webVars, envVars>>
vars == <<pipeVars, unitVars>>

----------------------------------------------------------------------------
(* Bounds of the model *)

MaxRuns == 2

\* the longest max_wait_time of a wait, in poll intervals
MaxWait == 2

\* the longest the requests of one poll take, in poll intervals
MaxTook == 1

\* the number of calls of save_persona_to_supabase running side by side
MaxSavers == 2

\* the largest number of personas of the job of a persona_responses request
MaxPersonas == 3

(* Policy constants, twelvelabs_router.py lines 40-53 *)

RatioLabels == <<"1:1", "4:3", "4:5", "5:4", "16:9", "9:16", "17:9">>

RatioPairs == <<(<<1, 1>>), (<<4, 3>>), (<<4, 5>>), (<<5, 4>>), (<<16, 9>>), (<<9, 16>>), (<<17, 9>>)>>

VALID_ASPECT_RATIOS == {RatioPairs[i] : i \in 1..Len(RatioPairs)}

MIN_RESOLUTION == <<360, 360>>

MAX_RESOLUTION == <<3840, 2160>>

MIN_DURATION == 4

MAX_DURATION == 7200

MAX_FILE_SIZE == <<2 * 1024, 0>>

Unknown == <<0, 0>>

None == "None"

----------------------------------------------------------------------------
(* Arithmetic helpers *)

RECURSIVE gcd(_, _)
gcd(a, b) == IF b = 0 THEN a ELSE gcd(b, a % b)

\* n seconds in the unit durations are held in
Seconds(n) == n * 1000

Abs(x) == IF x < 0 THEN -x ELSE x

\* a > b for two byte counts <<MiB, rest>>
SizeGT(a, b) == a[1] > b[1] \/ (a[1] = b[1] /\ a[2] > b[2])

\* comparisons of rationals <<n, d>> with d > 0
RatLT(p, q) == p[1] * q[2] < q[1] * p[2]

\* Python max(a, b, ...) and min(a, b, ...): the first extreme argument
RatMax2(p, q) == IF RatLT(p, q) THEN q ELSE p

RatMin2(p, q) == IF RatLT(q, p) THEN q ELSE p

\* int(k * r) for k >= 0 and a rational r >= 0
IntOfProduct(k, r) == (k * r[1]) \div r[2]

----------------------------------------------------------------------------
(* get_video_metadata, lines 84-194: what it computes from the probed      *)
(* stream and format description of a file.                                *)

\* a slip that would leave the ratio unreduced
AspectRatioOf_unreduced(width, height) ==
    IF width > 0 /\ height > 0 THEN <<width, height>> ELSE Unknown

\* a slip that would call a frame with a zero dimension square
AspectRatioOf_square(width, height) ==
    IF width > 0 /\ height > 0
    THEN LET divisor == gcd(width, height)
         IN  <<width \div divisor, height \div divisor>>
    ELSE <<1, 1>>

\* lines 163-172: the reduced aspect ratio, "unknown" for a zero dimension
AspectRatioOf(width, height) ==
    IF width > 0 /\ height > 0
    THEN LET divisor == gcd(width, height)
         IN  <<width \div divisor, height \div divisor>>
    ELSE Unknown

get_video_metadata(probe) ==
    [ width        |-> probe.width,
      height       |-> probe.height,
      duration     |-> probe.duration,
      file_size    |-> probe.file_size,
      aspect_ratio |-> AspectRatioOf(probe.width, probe.height) ]

\* a slip that would let a later stream of a type replace an earlier one
RECURSIVE select_streams_last(_, _, _, _)
select_streams_last(streams, i, video_stream, audio_stream) ==
    IF i > Len(streams)
    THEN [video_stream |-> video_stream, audio_stream |-> audio_stream]
    ELSE IF streams[i].codec_type = "video"
    THEN select_streams_last(streams, i + 1, i, audio_stream)
    ELSE IF streams[i].codec_type = "audio"
    THEN select_streams_last(streams, i + 1, video_stream, i)
    ELSE select_streams_last(streams, i + 1, video_stream, audio_stream)

\* lines 141-148: the loop over the streams from stream i on; video_stream
\* and audio_stream are places in the list, 0 while they are None
RECURSIVE select_streams(_, _, _, _)
select_streams(streams, i, video_stream, audio_stream) ==
    IF i > Len(streams)
    THEN [video_stream |-> video_stream, audio_stream |-> audio_stream]
    ELSE IF streams[i].codec_type = "video" /\ video_stream = 0
    THEN select_streams(streams, i + 1, i, audio_stream)
    ELSE IF streams[i].codec_type = "audio" /\ audio_stream = 0
    THEN select_streams(streams, i + 1, video_stream, i)
    ELSE select_streams(streams, i + 1, video_stream, audio_stream)

\* lines 150-151
RaisesNoVideoStream(probe_data) ==
    select_streams(probe_data.streams, 1, 0, 0).video_stream = 0

\* lines 140-185 for parsed ffprobe output that has a video stream: the
\* metadata above with the two codec names
get_video_metadata_of_streams(probe_data) ==
    LET selected == select_streams(probe_data.streams, 1, 0, 0)
        video == probe_data.streams[selected.video_stream]
        base == get_video_metadata([ width     |-> video.width,
                                     height    |-> video.height,
                                     duration  |-> probe_data.format.duration,
                                     file_size |-> probe_data.format.size ])
    IN  [ width        |-> base.width,
          height       |-> base.height,
          duration     |-> base.duration,
          file_size    |-> base.file_size,
          video_codec  |-> video.codec_name,
          audio_codec  |-> IF selected.audio_stream = 0 THEN "none"
                           ELSE probe_data.streams[selected.audio_stream].codec_name,
          aspect_ratio |-> base.aspect_ratio ]

----------------------------------------------------------------------------
(* validate_video_requirements, lines 197-296 *)

Message(text, actual, limit) ==
    [text |-> text, actual |-> actual, limit |-> limit]

Issue(type, message, fixable) ==
    [type |-> type, message |-> message, fixable |-> fixable]

\* the list a conditional issues.append(...) adds
AppendIf(cond, issue) == IF cond THEN <<issue>> ELSE << >>

\* lines 222-230
check_resolution_min(m) ==
    AppendIf(m.width < MIN_RESOLUTION[1] \/ m.height < MIN_RESOLUTION[2],
             Issue("resolution_too_low",
                   Message("Resolution {}x{} below minimum {}x{}",
                           <<m.width, m.height>>, MIN_RESOLUTION),
                   TRUE))

\* lines 232-240
check_resolution_max(m) ==
    AppendIf(m.width > MAX_RESOLUTION[1] \/ m.height > MAX_RESOLUTION[2],
             Issue("resolution_too_high",
                   Message("Resolution {}x{} exceeds maximum {}x{}",
                           <<m.width, m.height>>, MAX_RESOLUTION),
                   TRUE))

\* lines 242-251
check_aspect_ratio(m) ==
    AppendIf(m.aspect_ratio \notin VALID_ASPECT_RATIOS,
             Issue("invalid_aspect_ratio",
                   Message("Aspect ratio {} not in allowed list: 1:1, 4:3, 4:5, 5:4, 16:9, 9:16, 17:9",
                           m.aspect_ratio, << >>),
                   TRUE))

\* a slip that would reject a duration of exactly the minimum
check_duration_min_inclusive(m) ==
    AppendIf(m.duration <= Seconds(MIN_DURATION),
             Issue("duration_too_short",
                   Message("Duration {}s below minimum {}s (cannot be fixed)",
                           <<m.duration>>, <<MIN_DURATION>>),
                   FALSE))

\* lines 253-261
check_duration_min(m) ==
    AppendIf(m.duration < Seconds(MIN_DURATION),
             Issue("duration_too_short",
                   Message("Duration {}s below minimum {}s (cannot be fixed)",
                           <<m.duration>>, <<MIN_DURATION>>),
                   FALSE))

\* lines 263-271
check_duration_max(m) ==
    AppendIf(m.duration > Seconds(MAX_DURATION),
             Issue("duration_too_long",
                   Message("Duration {}s exceeds maximum {}s (will trim)",
                           <<m.duration>>, <<MAX_DURATION>>),
                   TRUE))

\* a slip that would make the size issue fixable
check_file_size_fixable(m) ==
    AppendIf(SizeGT(m.file_size, MAX_FILE_SIZE),
             Issue("file_too_large",
                   Message("File size {}MB exceeds maximum {}MB",
                           m.file_size, MAX_FILE_SIZE),
                   TRUE))

\* lines 273-283
check_file_size(m) ==
    AppendIf(SizeGT(m.file_size, MAX_FILE_SIZE),
             Issue("file_too_large",
                   Message("File size {}MB exceeds maximum {}MB",
                           m.file_size, MAX_FILE_SIZE),
                   FALSE))

\* lines 285-296
ValidationResult(issues) == [compliant |-> (Len(issues) = 0), issues |-> issues]

\* a slip that would run the duration checks before the aspect-ratio check
validate_duration_first(m) ==
    ValidationResult(check_resolution_min(m) \o check_resolution_max(m)
                     \o check_duration_min(m) \o check_duration_max(m)
                     \o check_aspect_ratio(m) \o check_file_size(m))

\* a slip that would chain the two resolution checks with elif
validate_elif(m) ==
    ValidationResult(check_resolution_min(m)
                     \o (IF Len(check_resolution_min(m)) > 0 THEN << >>
                         ELSE check_resolution_max(m))
                     \o check_aspect_ratio(m)
                     \o check_duration_min(m) \o check_duration_max(m)
                     \o check_file_size(m))

validate_video_requirements(m) ==
    ValidationResult(check_resolution_min(m) \o check_resolution_max(m)
                     \o check_aspect_ratio(m)
                     \o check_duration_min(m) \o check_duration_max(m)
                     \o check_file_size(m))

----------------------------------------------------------------------------
(* find_closest_aspect_ratio, lines 405-452, and the scale computation the *)
(* orchestrator repeats at lines 547-555.                                  *)

\* a slip that would exchange max and min
scale_factor_swapped(ratio_w, ratio_h) ==
    LET up == RatMin2(RatMin2(<<MIN_RESOLUTION[1], ratio_w>>,
                              <<MIN_RESOLUTION[2], ratio_h>>), <<1, 1>>)
    IN  RatMax2(RatMax2(up, <<MAX_RESOLUTION[1], ratio_w>>),
                <<MAX_RESOLUTION[2], ratio_h>>)

\* a slip that would scale up for the minimum width only
scale_factor_width_only(ratio_w, ratio_h) ==
    LET up == RatMax2(<<MIN_RESOLUTION[1], ratio_w>>, <<1, 1>>)
    IN  RatMin2(RatMin2(up, <<MAX_RESOLUTION[1], ratio_w>>),
                <<MAX_RESOLUTION[2], ratio_h>>)

\* lines 434-443 and 548-553: max(360/w, 360/h, 1.0) clamped by
\* min(scale, 3840/w, 2160/h)
scale_factor(ratio_w, ratio_h) ==
    LET up == RatMax2(RatMax2(<<MIN_RESOLUTION[1], ratio_w>>,
                              <<MIN_RESOLUTION[2], ratio_h>>), <<1, 1>>)
    IN  RatMin2(RatMin2(up, <<MAX_RESOLUTION[1], ratio_w>>),
                <<MAX_RESOLUTION[2], ratio_h>>)

\* Doubles between 2^-13 and 2^14, and zero, as sequences of GridInt +
\* GridFrac bits, most significant first: bit i weighs 2^(GridInt - i)
GridInt == 14

GridFrac == 66

GridLen == GridInt + GridFrac

\* the significand of a double
Mantissa == 53

\* 2^k
RECURSIVE Pow2(_)
Pow2(k) == IF k = 0 THEN 1 ELSE 2 * Pow2(k - 1)

\* a function on 1..n as the sequence it is
AsSeq(fn) == fn \o << >>

\* the GridInt low bits of n, most significant first
BitsOf(n) == AsSeq([ib \in 1..GridInt |-> (n \div Pow2(GridInt - ib)) % 2])

\* 2^k modulo q
RECURSIVE PowMod(_, _)
PowMod(k, q) ==
    IF k = 0 THEN 1 % q
    ELSE LET half == PowMod(k \div 2, q)
             square == (half * half) % q
         IN  IF k % 2 = 1 THEN (2 * square) % q ELSE square

\* what is left of r / q, r < q, below its first k fraction bits, times 2^k * q
Remainder(r, q, k) == (r * PowMod(k, q)) % q

\* the exact quotient p / q cut at the grid, and whether anything is left
\* below it
ExactQuotient(p, q) ==
    [ bits |-> BitsOf(p \div q) \o
               AsSeq([iq \in 1..GridFrac |->
                         IF 2 * Remainder(p % q, q, iq - 1) >= q THEN 1 ELSE 0]),
      sticky |-> Remainder(p % q, q, GridFrac) # 0 ]

LeadingOne(seq) ==
    IF \E il \in 1..GridLen : seq[il] = 1
    THEN CHOOSE il \in 1..GridLen : seq[il] = 1 /\ \A jl \in 1..(il - 1) : seq[jl] = 0
    ELSE 0

\* word plus one unit of its bit at pos
AddAt(word, pos) ==
    LET ja == CHOOSE ka \in 1..pos : word[ka] = 0 /\ \A la \in (ka + 1)..pos : word[la] = 1
    IN  AsSeq([ia \in 1..GridLen |-> IF ia = ja THEN 1
                                     ELSE IF ia > ja /\ ia <= pos THEN 0 ELSE word[ia]])

\* an exact value (exactBits, and sticky for what lies below the grid)
\* rounded to a double: to nearest, ties to even
RoundToDouble(exactBits, sticky) ==
    LET lead == LeadingOne(exactBits)
        last == lead + Mantissa - 1
    IN  IF lead = 0 \/ last >= GridLen THEN exactBits
        ELSE LET kept == AsSeq([ir \in 1..GridLen |-> IF ir <= last THEN exactBits[ir] ELSE 0])
                 below == sticky \/ \E jr \in (last + 2)..GridLen : exactBits[jr] = 1
             IN  IF exactBits[last + 1] = 1 /\ (below \/ exactBits[last] = 1)
                 THEN AddAt(kept, last) ELSE kept

\* x < y
FloatLT(x, y) ==
    \E ic \in 1..GridLen : x[ic] < y[ic] /\ \A jc \in 1..(ic - 1) : x[jc] = y[jc]

\* the borrow that the bits below position pb take from it in hi - lo
Borrow(hi, lo, pb) ==
    IF \E kb \in (pb + 1)..GridLen : hi[kb] < lo[kb] /\ \A jb \in (pb + 1)..(kb - 1) : hi[jb] = lo[jb]
    THEN 1 ELSE 0

\* hi - lo for hi >= lo
SubBits(hi, lo) ==
    AsSeq([is \in 1..GridLen |-> (hi[is] - lo[is] - Borrow(hi, lo, is) + 2) % 2])

\* line 416 and line 422: the double p / q of two integers
FloatDiv(p, q) ==
    LET exact == ExactQuotient(p, q)
    IN  RoundToDouble(exact.bits, exact.sticky)

\* line 423: abs(u - v) of two doubles
FloatAbsDiff(u, v) ==
    RoundToDouble(IF FloatLT(u, v) THEN SubBits(v, u) ELSE SubBits(u, v), FALSE)

\* lines 422-423: the difference to entry k of VALID_ASPECT_RATIOS
DiffTo(current_ratio, k) ==
    FloatAbsDiff(current_ratio, FloatDiv(RatioPairs[k][1], RatioPairs[k][2]))

\* lines 418-427: the loop over VALID_ASPECT_RATIOS.items() from entry i on,
\* best being the index of best_match (0 while best_diff is infinite)
RECURSIVE BestMatchFrom(_, _, _, _)
BestMatchFrom(current_ratio, i, best, best_diff) ==
    IF i > Len(RatioPairs) THEN best
    ELSE IF best = 0 \/ FloatLT(DiffTo(current_ratio, i), best_diff)
         THEN BestMatchFrom(current_ratio, i + 1, i, DiffTo(current_ratio, i))
         ELSE BestMatchFrom(current_ratio, i + 1, best, best_diff)

\* the result for height # 0; the division at line 416 raises for height = 0
find_closest_aspect_ratio(width, height) ==
    LET best == BestMatchFrom(FloatDiv(width, height), 1, 0, << >>)
        ratio_w == RatioPairs[best][1]
        ratio_h == RatioPairs[best][2]
        sf == scale_factor(ratio_w, ratio_h)
        target_width == IntOfProduct(ratio_w, sf)
        target_height == IntOfProduct(ratio_h, sf)
    IN  [ ratio_str |-> RatioLabels[best],
          target |-> <<target_width - (target_width % 2),
                       target_height - (target_height % 2)>> ]

RaisesZeroDivision(width, height) == height = 0

----------------------------------------------------------------------------
(* transform_video_with_ffmpeg, lines 299-402: whether the call returns or *)
(* raises, given what the transcoder run did.                              *)

\* an element of the argument list: plain text, or the -vf value as its
\* filters in the order they are joined with ","
Arg(text) == [text |-> text, nums |-> << >>, filters |-> << >>]

ArgStr(n) == [text |-> "{}", nums |-> n, filters |-> << >>]

ArgFilters(filters) == [text |-> "{},{}", nums |-> << >>, filters |-> filters]

\* lines 365-368
scale_filter(target_width, target_height) ==
    [text |-> "scale={}:{}:force_original_aspect_ratio=decrease",
     nums |-> <<target_width, target_height>>]

pad_filter(target_width, target_height) ==
    [text |-> "pad={}:{}:(ow-iw)/2:(oh-ih)/2:black",
     nums |-> <<target_width, target_height>>]

\* transformations.get(key, default)
DictGet(dict, key, default) == IF key \in DOMAIN dict THEN dict[key] ELSE default

\* lines 338-374: the argument list
ffmpeg_cmd(in_path, out_path, dict) ==
    <<Arg("ffmpeg"), Arg("-i"), Arg(in_path), Arg("-y")>>
    \o <<Arg("-c:v"), Arg("libx264"), Arg("-preset"), Arg("medium"), Arg("-crf"), Arg("23")>>
    \o <<Arg("-c:a"), Arg("aac"), Arg("-b:a"), Arg("128k")>>
    \o (IF "max_duration" \in DOMAIN dict
        THEN <<Arg("-t"), ArgStr(dict["max_duration"])>> ELSE << >>)
    \o (IF "target_resolution" \in DOMAIN dict \/ "target_aspect_ratio" \in DOMAIN dict
        THEN LET target == DictGet(dict, "target_resolution", <<1920, 1080>>)
             IN  <<Arg("-vf"), ArgFilters(<<scale_filter(target[1], target[2]),
                                            pad_filter(target[1], target[2])>>)>>
        ELSE << >>)
    \o <<Arg(out_path)>>

\* the ways a run of the external transcoder can go
ToolOutcomes == {"tool_missing", "timeout", "nonzero_exit", "exit_zero"}

\* a slip that would not look at the size of the output
transform_video_with_ffmpeg_unsized(outcome, d, out_path) ==
    IF outcome = "tool_missing" THEN "raise: FFmpeg not found"
    ELSE IF outcome = "timeout" THEN "raise: timed out"
    ELSE IF outcome = "nonzero_exit" THEN "raise: transformation failed"
    ELSE IF out_path \notin DOMAIN d THEN "raise: no output file"
    ELSE "ok"

\* d is the temp directory as the transcoder run left it
transform_video_with_ffmpeg(outcome, d, out_path) ==
    IF outcome = "tool_missing" THEN "raise: FFmpeg not found"
    ELSE IF outcome = "timeout" THEN "raise: timed out"
    ELSE IF outcome = "nonzero_exit" THEN "raise: transformation failed"
    ELSE IF out_path \notin DOMAIN d THEN "raise: no output file"
    ELSE IF SizeGT(d[out_path].file_size, MAX_FILE_SIZE) THEN "raise: exceeds 2GB limit"
    ELSE "ok"

----------------------------------------------------------------------------
(* process_and_validate_video, lines 455-618 *)

TmpInput == "tmp_input.mp4"

TmpOutput == "tmp_output.mp4"

Paths == {TmpInput, TmpOutput}

\* tempfile.NamedTemporaryFile(delete=False) before anything is written
EmptyFile == [width |-> 0, height |-> 0, duration |-> 0, file_size |-> <<0, 0>>]

NoMetadata == [width |-> 0, height |-> 0, duration |-> 0, file_size |-> <<0, 0>>,
               aspect_ratio |-> Unknown]

NoValidation == [compliant |-> FALSE, issues |-> << >>]

NoPlan == [k \in {} |-> << >>]

NoClosest == [ratio_str |-> "", target |-> <<0, 0>>]

NoProbe == [streams |-> << >>, format |-> [duration |-> 0, size |-> <<0, 0>>]]

\* what a direct call of get_video_metadata gave: metadata or an exception
ProbeResult(kind, m) == [kind |-> kind, metadata |-> m]

NoCodecs == [ width |-> 0, height |-> 0, duration |-> 0, file_size |-> <<0, 0>>,
              video_codec |-> "", audio_codec |-> "", aspect_ratio |-> Unknown ]

NoProbeResult == ProbeResult("none", NoCodecs)

NoResponse == [kind |-> "none", status |-> 0, detail |-> "", messages |-> << >>,
               path |-> None]

Returned(path) ==
    [kind |-> "return", status |-> 0, detail |-> "", messages |-> << >>,
     path |-> path]

HTTPException(status_code, detail, messages) ==
    [kind |-> "raise", status |-> status_code, detail |-> detail,
     messages |-> messages, path |-> None]

\* the temp directory is a function from the paths that exist to their content
NoFiles == [k \in {} |-> EmptyFile]

\* how a direct call of transform_video_with_ffmpeg ended, with the outcome of
\* the tool and the temp directory it left
TransformResult(kind, outcome, after) == [kind |-> kind, outcome |-> outcome, after |-> after]

NoTransformResult == TransformResult("none", "none", NoFiles)

exists(d, path) == path \in DOMAIN d

\* a slip that would leave the file in place
unlink_skipped(d, path) == d

unlink(d, path) == [q \in DOMAIN d \ {path} |-> d[q]]

write(d, path, content) == (path :> content) @@ d

\* a slip that would leave the cleanup out of the generic exception handler
cleanup_on_error_skipped(d, path) == d

\* lines 611-614: the cleanup of the generic exception handler
cleanup_on_error(d, path) == IF exists(d, path) THEN unlink(d, path) ELSE d

\* a slip that would look at the first issue only
unfixable_issues_first(v) ==
    IF Len(v.issues) > 0 /\ ~v.issues[1].fixable THEN <<v.issues[1]>> ELSE << >>

\* lines 519-521
unfixable_issues(v) == SelectSeq(v.issues, LAMBDA issue : ~issue.fixable)

\* a slip that would join the messages last issue first
MessagesOf_reversed(issues) == [i \in 1..Len(issues) |-> issues[Len(issues) + 1 - i].message]

\* lines 523 and 590-592: the messages "; ".join(...) puts together, in order
MessagesOf(issues) == [i \in 1..Len(issues) |-> issues[i].message]

\* a slip that would re-encode every accepted input
needs_transform_always(v) == TRUE

\* line 531
needs_transform(v) == ~v.compliant

\* lines 538-542
needs_resize(v) ==
    \E i \in 1..Len(v.issues) :
        v.issues[i].type \in {"resolution_too_low", "resolution_too_high",
                              "invalid_aspect_ratio"}

\* lines 545-560: the target of the resize; the closest-ratio branch raises
\* ZeroDivisionError when the height is zero
target_raises(m) ==
    m.aspect_ratio \notin VALID_ASPECT_RATIOS /\ RaisesZeroDivision(m.width, m.height)

\* a slip that would keep the source frame when its ratio is allowed
target_resolution_of_source(m) ==
    IF m.aspect_ratio \in VALID_ASPECT_RATIOS
    THEN <<m.width, m.height>>
    ELSE find_closest_aspect_ratio(m.width, m.height).target

target_resolution(m) ==
    IF m.aspect_ratio \in VALID_ASPECT_RATIOS
    THEN LET ratio_w == m.aspect_ratio[1]
             ratio_h == m.aspect_ratio[2]
             scale == scale_factor(ratio_w, ratio_h)
         IN  <<IntOfProduct(ratio_w, scale), IntOfProduct(ratio_h, scale)>>
    ELSE find_closest_aspect_ratio(m.width, m.height).target

\* lines 531-558: whether the run gets to call find_closest_aspect_ratio
calls_closest(m, v) ==
    needs_transform(v) /\ needs_resize(v) /\ m.aspect_ratio \notin VALID_ASPECT_RATIOS

\* a slip that would trim a video of exactly the maximum duration
build_transformations_inclusive(m, v) ==
    (IF needs_resize(v) THEN "target_resolution" :> target_resolution(m) ELSE NoPlan)
    @@
    (IF m.duration >= Seconds(MAX_DURATION) THEN "max_duration" :> <<MAX_DURATION>> ELSE NoPlan)

\* lines 535-569: the transformations dictionary
build_transformations(m, v) ==
    (IF needs_resize(v) THEN "target_resolution" :> target_resolution(m) ELSE NoPlan)
    @@
    (IF m.duration > Seconds(MAX_DURATION) THEN "max_duration" :> <<MAX_DURATION>> ELSE NoPlan)

\* a slip that would transcode again when the output is not compliant
after_revalidation_retry(v) == IF ~v.compliant THEN "Transforming" ELSE "Done"

\* a slip that would return the output without looking at the second validation
after_revalidation_unchecked(v) == "Done"

\* lines 588-598: where the run goes after the second validation
after_revalidation(v) == IF ~v.compliant THEN "Failed" ELSE "Done"

----------------------------------------------------------------------------
(* The values the environment supplies *)

\* fetch_video_blob_from_storage, lines 56-81, is a placeholder that raises
\* NotImplementedError; the storage integration it stands for returns the
\* bytes or fails
FetchOutcomes == {"ok", "not_implemented", "error"}

\* the function as the source has it, and the integration its docstring
\* announces
Placeholder == "placeholder"

StorageBuilds == {Placeholder, "integrated"}

\* a slip that would have the placeholder hand back bytes
fetch_video_blob_from_storage_stub(build) ==
    IF build = Placeholder THEN {"ok"} ELSE FetchOutcomes

\* lines 56-81: how a call of the function can end; the placeholder has the
\* one statement of lines 77-81, which raises NotImplementedError
fetch_video_blob_from_storage(build) ==
    IF build = Placeholder THEN {"not_implemented"} ELSE FetchOutcomes

\* the ways a run of the external prober can go (lines 108-119, 133-151, 189-194)
ProbeOutcomes == {"ok", "tool_missing", "probe_failed", "no_video_stream"}

\* probed frame sizes: a zero dimension; each allowed ratio below, within and
\* above the resolution bounds; ratios outside the allowed set near each
\* allowed one; a frame both too narrow and too tall
Resolutions ==
    { <<0, 0>>, <<0, 200>>, <<200, 0>>,
      <<200, 200>>, <<360, 360>>, <<2160, 2160>>,
      <<160, 120>>, <<640, 480>>,
      <<400, 500>>, <<500, 400>>, <<240, 300>>, <<300, 240>>,
      <<1920, 1080>>, <<3840, 2160>>, <<7680, 4320>>,
      <<1080, 1920>>, <<2160, 3840>>,
      <<680, 360>>, <<4080, 2160>>,
      <<1000, 999>>, <<1300, 1000>>, <<800, 999>>, <<1251, 1000>>,
      <<1780, 1000>>, <<560, 1000>>, <<1920, 1000>>, <<9, 8>>,
      <<200, 4000>> }

Durations == {3999, 4000, 30000, 7200000, 7200001, 10000000}

FileSizes == {<<1, 0>>, <<2048, 0>>, <<2048, 1>>}

InputMedia ==
    { [width |-> r[1], height |-> r[2], duration |-> d, file_size |-> sz] :
        r \in Resolutions, d \in Durations, sz \in FileSizes }

\* what the transcoder does when it does what the plan asks: the frame size
\* of the filter (the source's without a filter), at most -t seconds
PlannedResolution(m, plan) ==
    IF "target_resolution" \in DOMAIN plan
    THEN plan["target_resolution"] ELSE <<m.width, m.height>>

PlannedDuration(m, plan) ==
    IF "max_duration" \in DOMAIN plan /\ m.duration > Seconds(plan["max_duration"][1])
    THEN Seconds(plan["max_duration"][1]) ELSE m.duration

\* what it may write instead
OffResolutions == {<<358, 640>>, <<1000, 999>>}

OffDurations == {3999, 7200001}

OutputMedia(m, plan) ==
    { [width |-> r[1], height |-> r[2], duration |-> d, file_size |-> sz] :
        r \in {PlannedResolution(m, plan)} \cup OffResolutions,
        d \in {PlannedDuration(m, plan)} \cup OffDurations,
        sz \in FileSizes }

----------------------------------------------------------------------------
(* main.py: the values of the search endpoint and its background task *)

\* SearchResponse of src/db/models.py; the items are linkedin urls
SearchResponse(success, items, saved_personas_count, error) ==
    [success |-> success, items |-> items,
     saved_personas_count |-> saved_personas_count, error |-> error]

NoSearchResponse == SearchResponse(FALSE, << >>, 0, "none")

\* the payload of get_webset_status
WebsetData(status) == [id |-> "webset_1", status |-> status]

\* how wait_for_webset_completion ended: "return" with the payload, or a raise
WaitResult(kind, data) == [kind |-> kind, data |-> data]

NoWaitResult == WaitResult("none", WebsetData("none"))

\* nothing of main.py has run
\* lines 455-461: the counts of the answer of persona_responses, or the
\* status of the HTTPException it raised
ResponsesResult(status_code, total_personas, successful_responses, failed_responses) ==
    [status_code |-> status_code, total_personas |-> total_personas,
     successful_responses |-> successful_responses,
     failed_responses |-> failed_responses]

NoResponsesResult == ResponsesResult(0, 0, 0, 0)

\* no call of save_persona_to_supabase is under way
SaveIdle == savers = << >>

\* no request to persona_responses is under way
ResponsesIdle ==
    /\ anthropic_client = TRUE
    /\ resp_pc = "idle"
    /\ coroutines = << >>
    /\ persona_responses = << >>
    /\ resp_response = NoResponsesResult

\* no search has been requested
SearchIdle ==
    /\ search_response = NoSearchResponse
    /\ task_pc = "idle"
    /\ max_wait_time = 0
    /\ elapsed = 0
    /\ observed = << >>
    /\ status_requests = 0
    /\ wait_result = NoWaitResult
    /\ task_response = NoSearchResponse
    /\ synced = FALSE

WebIdle ==
    /\ SaveIdle
    /\ ResponsesIdle
    /\ SearchIdle
    /\ supabase = TRUE
    /\ persona = << >>

----------------------------------------------------------------------------
(* The state machine *)

TerminalStates == {"Done", "Rejected", "Failed", "FetchFailed"}

PipelineInit ==
    /\ pc = "Idle"
    /\ runs = 0
    /\ input_path = None
    /\ output_path = None
    /\ disk = NoFiles
    /\ created = {}
    /\ metadata = NoMetadata
    /\ validation = NoValidation
    /\ transformations = NoPlan
    /\ new_metadata = NoMetadata
    /\ new_validation = NoValidation
    /\ response = NoResponse
    /\ history = << >>
    /\ ffmpegCalls = 0
    /\ ffprobeCalls = 0
    /\ closestCalls = 0

Init ==
    /\ PipelineInit
    /\ unit_in = NoMetadata
    /\ unit_out = NoValidation
    /\ closest_in = <<0, 1>>
    /\ closest_out = NoClosest
    /\ probe_in = NoProbe
    /\ probe_out = NoProbeResult
    /\ cmd_in = NoPlan
    /\ cmd_out = << >>
    /\ transform_out = NoTransformResult
    /\ WebIdle
    /\ storage \in StorageBuilds

\* a call of process_and_validate_video up to line 507: the fetch and the
\* temp input file
Fetch ==
    /\ pc = "Idle"
    /\ runs < MaxRuns
    /\ runs' = runs + 1
    /\ \E outcome \in fetch_video_blob_from_storage(storage) :
         IF outcome = "ok"
         THEN \E video_bytes \in InputMedia :
              /\ disk' = write(NoFiles, TmpInput, video_bytes)
              /\ created' = {TmpInput}
              /\ input_path' = TmpInput
              /\ response' = NoResponse
              /\ history' = <<"Probing">>
              /\ pc' = "Probing"
         ELSE /\ response' = IF outcome = "not_implemented"
                             THEN HTTPException(501, "Video blob fetching not yet implemented", << >>)
                             ELSE HTTPException(500, "Failed to fetch video", << >>)
              /\ pc' = "FetchFailed"
              /\ UNCHANGED <<disk, created, input_path, history>>
    /\ UNCHANGED <<output_path, metadata, validation, transformations,
                   new_metadata, new_validation, ffmpegCalls, ffprobeCalls,
                   closestCalls, unitVars>>

\* the call has returned or raised: its frame is gone, and the next call
\* draws fresh temp file names
Return ==
    /\ pc \in TerminalStates
    /\ pc' = "Idle"
    /\ input_path' = None
    /\ output_path' = None
    /\ disk' = NoFiles
    /\ created' = {}
    /\ metadata' = NoMetadata
    /\ validation' = NoValidation
    /\ transformations' = NoPlan
    /\ new_metadata' = NoMetadata
    /\ new_validation' = NoValidation
    /\ response' = NoResponse
    /\ history' = << >>
    /\ ffmpegCalls' = 0
    /\ ffprobeCalls' = 0
    /\ closestCalls' = 0
    /\ UNCHANGED <<runs, unitVars>>

\* lines 611-618: an exception other than HTTPException ends the run
Fail(d) ==
    /\ disk' = cleanup_on_error(d, input_path)
    /\ response' = HTTPException(500, "Video processing failed", << >>)
    /\ history' = Append(history, "Failed")
    /\ pc' = "Failed"

\* line 512
Probing ==
    /\ pc = "Probing"
    /\ ffprobeCalls' = ffprobeCalls + 1
    /\ \E outcome \in ProbeOutcomes :
         IF outcome = "ok"
         THEN /\ metadata' = get_video_metadata(disk[input_path])
              /\ history' = Append(history, "Validating")
              /\ pc' = "Validating"
              /\ UNCHANGED <<disk, response>>
         ELSE /\ Fail(disk)
              /\ UNCHANGED metadata
    /\ UNCHANGED <<runs, input_path, output_path, created, validation,
                   transformations, new_metadata, new_validation, ffmpegCalls,
                   closestCalls, unitVars>>

\* lines 516-574: validation, the rejection, the plan and the temp output file
Validating ==
    /\ pc = "Validating"
    /\ LET v == validate_video_requirements(metadata)
           unfixable == unfixable_issues(v)
       IN  /\ validation' = v
           /\ IF Len(unfixable) > 0
              THEN /\ disk' = unlink(disk, input_path)
                   /\ response' = HTTPException(400, "Video has unfixable issues",
                                                MessagesOf(unfixable))
                   /\ history' = Append(history, "Rejected")
                   /\ pc' = "Rejected"
                   /\ UNCHANGED <<transformations, output_path, created>>
              ELSE IF ~needs_transform(v)
              THEN /\ response' = Returned(input_path)
                   /\ history' = Append(history, "Done")
                   /\ pc' = "Done"
                   /\ UNCHANGED <<disk, transformations, output_path, created>>
              ELSE IF needs_resize(v) /\ target_raises(metadata)
              THEN /\ Fail(disk)
                   /\ UNCHANGED <<transformations, output_path, created>>
              ELSE /\ transformations' = build_transformations(metadata, v)
                   /\ disk' = write(disk, TmpOutput, EmptyFile)
                   /\ created' = created \cup {TmpOutput}
                   /\ output_path' = TmpOutput
                   /\ history' = Append(history, "Transforming")
                   /\ pc' = "Transforming"
                   /\ UNCHANGED response
           /\ closestCalls' = IF Len(unfixable) = 0 /\ calls_closest(metadata, v)
                              THEN closestCalls + 1 ELSE closestCalls
    /\ UNCHANGED <<runs, input_path, metadata, new_metadata, new_validation,
                   ffmpegCalls, ffprobeCalls, unitVars>>

\* lines 577-581: the transcoder run, then the input is dropped for the output
Transforming ==
    /\ pc = "Transforming"
    /\ ffmpegCalls' = ffmpegCalls + 1
    /\ \E outcome \in ToolOutcomes,
          content \in OutputMedia(metadata, transformations),
          wrote \in BOOLEAN :
         LET after == IF outcome = "exit_zero"
                      THEN IF wrote THEN write(disk, output_path, content)
                           ELSE unlink(disk, output_path)
                      ELSE disk
         IN  IF transform_video_with_ffmpeg(outcome, after, output_path) = "ok"
             THEN /\ disk' = unlink(after, input_path)
                  /\ input_path' = output_path
                  /\ history' = Append(history, "Reprobing")
                  /\ pc' = "Reprobing"
                  /\ UNCHANGED response
             ELSE /\ Fail(after)
                  /\ UNCHANGED input_path
    /\ UNCHANGED <<runs, output_path, created, metadata, validation,
                   transformations, new_metadata, new_validation, ffprobeCalls,
                   closestCalls, unitVars>>

\* line 585
Reprobing ==
    /\ pc = "Reprobing"
    /\ ffprobeCalls' = ffprobeCalls + 1
    /\ \E outcome \in ProbeOutcomes :
         IF outcome = "ok"
         THEN /\ new_metadata' = get_video_metadata(disk[input_path])
              /\ history' = Append(history, "Revalidating")
              /\ pc' = "Revalidating"
              /\ UNCHANGED <<disk, response>>
         ELSE /\ Fail(disk)
              /\ UNCHANGED new_metadata
    /\ UNCHANGED <<runs, input_path, output_path, created, metadata, validation,
                   transformations, new_validation, ffmpegCalls, closestCalls, unitVars>>

\* lines 586-606
Revalidating ==
    /\ pc = "Revalidating"
    /\ LET v == validate_video_requirements(new_metadata)
           next == after_revalidation(v)
       IN  /\ new_validation' = v
           /\ history' = Append(history, next)
           /\ pc' = next
           /\ IF next = "Failed"
              THEN /\ disk' = unlink(disk, input_path)
                   /\ response' = HTTPException(500,
                                     "Video still non-compliant after transformation",
                                     MessagesOf(v.issues))
              ELSE IF next = "Done"
              THEN /\ response' = Returned(input_path)
                   /\ UNCHANGED disk
              ELSE UNCHANGED <<disk, response>>
    /\ UNCHANGED <<runs, input_path, output_path, created, metadata, validation,
                   transformations, new_metadata, ffmpegCalls, ffprobeCalls,
                   closestCalls, unitVars>>

Next ==
    \/ Fetch
    \/ Return
    \/ Probing
    \/ Validating
    \/ Transforming
    \/ Reprobing
    \/ Revalidating

Spec == Init /\ [][Next]_vars

----------------------------------------------------------------------------
(* Direct calls of the validator on arbitrary metadata dictionaries: the   *)
(* aspect ratio entry need not agree with the width and height entries.    *)

UnitWidths == {359, 360, 3840, 3841}

UnitHeights == {359, 360, 2160, 2161}

UnitDurations == {3999, 4000, 7200000, 7200001}

UnitAspects == {<<1, 1>>, <<16, 9>>, <<2, 2>>, <<9, 5>>, Unknown}

MetadataValues ==
    [width : UnitWidths, height : UnitHeights, duration : UnitDurations,
     file_size : FileSizes, aspect_ratio : UnitAspects]

ValidateCall ==
    /\ \E m \in MetadataValues :
         /\ unit_in' = m
         /\ unit_out' = validate_video_requirements(m)
    /\ UNCHANGED <<pipeVars, closest_in, closest_out, probe_in, probe_out,
                   cmd_in, cmd_out, transform_out, webVars, envVars>>

NextValidate == ValidateCall

SpecValidate == Init /\ [][NextValidate]_vars

\* a direct call has returned
UnitCalled == unit_out # NoValidation

----------------------------------------------------------------------------
(* Properties of the orchestrator *)

HasUnfixable(v) == \E i \in 1..Len(v.issues) : ~v.issues[i].fixable

HasFixable(v) == \E i \in 1..Len(v.issues) : v.issues[i].fixable

\* the first validation of the run has been made
Validated == validation # NoValidation

\* the second validation of the run has been made
Revalidated == Len(history) = 6

Surviving == {p \in created : exists(disk, p)}

\* C1: when a run ends in a rejection (400) or a failure (500), none of the
\* temp files the run created (input, and output if created) still exists.
Claim_C1 ==
    pc \in {"Rejected", "Failed"} => Surviving = {}

\* C2: when the validation of the original input reports an unfixable issue
\* (duration below 4 s or size above 2 GiB), the run is rejected with a 400,
\* the transcoder is never invoked and the input file is deleted, whatever
\* fixable issues are present too.
Thm_C2 ==
    (Validated /\ (HasUnfixable(validation)
                   \/ metadata.duration < Seconds(MIN_DURATION)
                   \/ SizeGT(metadata.file_size, MAX_FILE_SIZE)))
    => /\ pc = "Rejected"
       /\ response.kind = "raise" /\ response.status = 400
       /\ ffmpegCalls = 0
       /\ TmpOutput \notin created
       /\ ~exists(disk, TmpInput)

\* a run rejected for an unfixable issue that came with a fixable one
Wit_C2 ==
    pc = "Rejected" /\ HasUnfixable(validation) /\ HasFixable(validation)

\* C3: when the run returns a path, exactly one temp file of the run exists
\* and it is the returned one: the input on the compliant path, the output
\* (the input being deleted) on the transform path.
Thm_C3 ==
    pc = "Done"
    => /\ response.kind = "return"
       /\ Surviving = {response.path}
       /\ (ffmpegCalls = 0 => response.path = TmpInput)
       /\ (ffmpegCalls > 0 => response.path = TmpOutput /\ ~exists(disk, TmpInput))

\* a run that returned the transformed file
Wit_C3 == pc = "Done" /\ ffmpegCalls = 1 /\ response.path = TmpOutput

\* C4: when the original input validates compliant, the transcoder is not
\* invoked, no output temp file is created, there is no second probe, and the
\* path returned is that of the input file, whose content is as probed.
Thm_C4 ==
    (Validated /\ validation.compliant)
    => /\ pc = "Done"
       /\ ffmpegCalls = 0
       /\ TmpOutput \notin created
       /\ output_path = None
       /\ ffprobeCalls = 1
       /\ response = Returned(TmpInput)
       /\ exists(disk, TmpInput)
       /\ get_video_metadata(disk[TmpInput]) = metadata

\* a run that returned a compliant input
Wit_C4 == pc = "Done" /\ validation.compliant /\ response.path = TmpInput

PipelineOrder ==
    <<"Probing", "Validating", "Transforming", "Reprobing", "Revalidating">>

\* C5: a run goes through Probing, Validating and then either Done or
\* Transforming, Reprobing, Revalidating, in that order, and ends in exactly
\* one of Done, Rejected, Failed; no state is entered twice, the transcoder is
\* invoked at most once and the prober at most twice (no retry).
Thm_C5 ==
    pc \notin {"Idle", "FetchFailed"}
    => /\ Len(history) >= 1 /\ Len(history) <= 6
       /\ history[Len(history)] = pc
       /\ \A i \in 1..Len(history) :
            \/ i <= 5 /\ history[i] = PipelineOrder[i]
            \/ /\ i = Len(history)
               /\ i >= 2
               /\ history[i] \in {"Done", "Rejected", "Failed"}
               /\ (history[i] = "Done" => i \in {3, 6})
               /\ (history[i] = "Rejected" => i = 3)
       /\ \A i, j \in 1..Len(history) : i # j => history[i] # history[j]
       /\ ffmpegCalls <= 1
       /\ ffprobeCalls <= 2

\* a run that went through every state of the transform path
Wit_C5 == pc = "Done" /\ Len(history) = 6 /\ ffmpegCalls = 1 /\ ffprobeCalls = 2

\* C6: after a successful transform the transformed file is probed afresh and
\* that metadata is validated; a path is returned after a transform only if
\* this validation is compliant, and otherwise the transformed file is deleted
\* and the run fails with a 500.
Thm_C6 ==
    /\ pc = "Revalidating"
       => /\ input_path = TmpOutput
          /\ new_metadata = get_video_metadata(disk[TmpOutput])
    /\ (pc = "Done" /\ ffmpegCalls > 0)
       => /\ ffprobeCalls = 2
          /\ new_metadata = get_video_metadata(disk[TmpOutput])
          /\ new_validation = validate_video_requirements(new_metadata)
          /\ new_validation.compliant
    /\ (Revalidated /\ Len(validate_video_requirements(new_metadata).issues) > 0)
       => /\ pc = "Failed"
          /\ response.kind = "raise" /\ response.status = 500
          /\ ~exists(disk, TmpOutput)

\* a run that failed because the transformed file was still not compliant
Wit_C6 ==
    pc = "Failed" /\ Revalidated /\ Len(new_validation.issues) > 0

\* the transformed file is what the plan asks for: the frame size is the
\* planned target (the source's when no target is planned), the duration is
\* between 4 s and 7200 s, the size at most 2 GiB
OutputAsPlanned ==
    /\ <<new_metadata.width, new_metadata.height>>
         = PlannedResolution(metadata, transformations)
    /\ new_metadata.duration >= Seconds(MIN_DURATION)
    /\ new_metadata.duration <= Seconds(MAX_DURATION)
    /\ ~SizeGT(new_metadata.file_size, MAX_FILE_SIZE)

\* C7: for an input of positive width and height with fixable issues only,
\* if the transcoder succeeds and its output is what the plan asks for, the
\* second validation is compliant and the run ends in Done; a 200x200 input
\* of 30 s is planned to 360x360.
Thm_C7 ==
    /\ (Revalidated /\ metadata.width > 0 /\ metadata.height > 0 /\ OutputAsPlanned)
       => /\ pc = "Done"
          /\ new_validation.compliant
    /\ (pc = "Transforming" /\ metadata.width = 200 /\ metadata.height = 200)
       => transformations["target_resolution"] = <<360, 360>>

\* the 200x200 input of 30 s, transformed to 360x360 and accepted
Wit_C7 ==
    /\ pc = "Done"
    /\ metadata.width = 200 /\ metadata.height = 200 /\ metadata.duration = 30000
    /\ new_metadata.width = 360 /\ new_metadata.height = 360

----------------------------------------------------------------------------
(* Properties of the validator *)

KindOrder ==
    <<"resolution_too_low", "resolution_too_high", "invalid_aspect_ratio",
      "duration_too_short", "duration_too_long", "file_too_large">>

Rank(kind) == CHOOSE i \in 1..Len(KindOrder) : KindOrder[i] = kind

HasKind(v, kind) == \E i \in 1..Len(v.issues) : v.issues[i].type = kind

\* C8: the issues of a result come in the order resolution_too_low,
\* resolution_too_high, invalid_aspect_ratio, duration_too_short,
\* duration_too_long, file_too_large, each kind at most once.
Thm_C8 ==
    UnitCalled
    => /\ \A i \in 1..Len(unit_out.issues) :
            \E k \in 1..Len(KindOrder) : unit_out.issues[i].type = KindOrder[k]
       /\ \A i, j \in 1..Len(unit_out.issues) :
            i < j => Rank(unit_out.issues[i].type) < Rank(unit_out.issues[j].type)

\* a result with five issues, an aspect-ratio issue before a duration issue
Wit_C8 ==
    /\ UnitCalled
    /\ Len(unit_out.issues) = 5
    /\ HasKind(unit_out, "invalid_aspect_ratio")
    /\ HasKind(unit_out, "duration_too_long")

\* C9: each of the six kinds is reported if and only if its own threshold
\* condition holds, whatever the other checks find, and compliant is true
\* if and only if the list of issues is empty.
Thm_C9 ==
    UnitCalled
    => /\ HasKind(unit_out, "resolution_too_low")
            <=> (unit_in.width < 360 \/ unit_in.height < 360)
       /\ HasKind(unit_out, "resolution_too_high")
            <=> (unit_in.width > 3840 \/ unit_in.height > 2160)
       /\ HasKind(unit_out, "invalid_aspect_ratio")
            <=> (unit_in.aspect_ratio \notin
                   {<<1, 1>>, <<4, 3>>, <<4, 5>>, <<5, 4>>, <<16, 9>>, <<9, 16>>, <<17, 9>>})
       /\ HasKind(unit_out, "duration_too_short") <=> (unit_in.duration < 4 * 1000)
       /\ HasKind(unit_out, "duration_too_long") <=> (unit_in.duration > 7200 * 1000)
       /\ HasKind(unit_out, "file_too_large")
            <=> (unit_in.file_size[1] > 2048
                   \/ (unit_in.file_size[1] = 2048 /\ unit_in.file_size[2] > 0))
       /\ unit_out.compliant <=> (unit_out.issues = << >>)

\* a result with both resolution issues and a duration issue at once
Wit_C9 ==
    /\ UnitCalled
    /\ HasKind(unit_out, "resolution_too_low")
    /\ HasKind(unit_out, "resolution_too_high")
    /\ HasKind(unit_out, "duration_too_long")
    /\ ~HasKind(unit_out, "invalid_aspect_ratio")

\* C10: an issue is unfixable if and only if its kind is duration_too_short
\* or file_too_large.
Thm_C10 ==
    UnitCalled
    => \A i \in 1..Len(unit_out.issues) :
         (~unit_out.issues[i].fixable)
            <=> (unit_out.issues[i].type \in {"duration_too_short", "file_too_large"})

\* a result with the two unfixable kinds and a fixable one
Wit_C10 ==
    /\ UnitCalled
    /\ HasKind(unit_out, "duration_too_short")
    /\ HasKind(unit_out, "file_too_large")
    /\ HasKind(unit_out, "resolution_too_high")

\* C11: the thresholds are inclusive: a duration of exactly 4 s or 7200 s, a
\* width and height of exactly 360, a width of 3840 with a height of 2160,
\* and a size of exactly 2 GiB (2048 MiB and no byte more) raise no issue of
\* their check; an issue is raised only by a value strictly outside its bound.
Thm_C11 ==
    UnitCalled
    => /\ unit_in.duration = 4 * 1000 => ~HasKind(unit_out, "duration_too_short")
       /\ unit_in.duration = 7200 * 1000 => ~HasKind(unit_out, "duration_too_long")
       /\ (unit_in.width = 360 /\ unit_in.height = 360)
            => ~HasKind(unit_out, "resolution_too_low")
       /\ (unit_in.width = 3840 /\ unit_in.height = 2160)
            => ~HasKind(unit_out, "resolution_too_high")
       /\ unit_in.file_size = <<2048, 0>> => ~HasKind(unit_out, "file_too_large")
       /\ HasKind(unit_out, "duration_too_short") => unit_in.duration < 4 * 1000
       /\ HasKind(unit_out, "duration_too_long") => unit_in.duration > 7200 * 1000
       /\ HasKind(unit_out, "resolution_too_low")
            => (unit_in.width < 360 \/ unit_in.height < 360)
       /\ HasKind(unit_out, "resolution_too_high")
            => (unit_in.width > 3840 \/ unit_in.height > 2160)
       /\ HasKind(unit_out, "file_too_large")
            => SizeGT(unit_in.file_size, <<2048, 0>>)

\* metadata on the minimum duration, the maximum resolution and the maximum
\* size at once, found compliant
Wit_C11 ==
    /\ UnitCalled
    /\ unit_in = [width |-> 3840, height |-> 2160, duration |-> 4 * 1000,
                  file_size |-> <<2048, 0>>, aspect_ratio |-> <<16, 9>>]
    /\ unit_out.compliant

----------------------------------------------------------------------------
(* Direct calls of find_closest_aspect_ratio on every width from 0 and     *)
(* every height from 1 up to MaxDim.                                       *)

MaxDim == 32

InitClosest ==
    /\ PipelineInit
    /\ unit_in = NoMetadata
    /\ unit_out = NoValidation
    /\ closest_in \in (0..MaxDim) \X (1..MaxDim)
    /\ closest_out = NoClosest
    /\ probe_in = NoProbe
    /\ probe_out = NoProbeResult
    /\ cmd_in = NoPlan
    /\ cmd_out = << >>
    /\ transform_out = NoTransformResult
    /\ WebIdle
    /\ storage = Placeholder

ClosestCall ==
    /\ closest_out = NoClosest
    /\ closest_out' = find_closest_aspect_ratio(closest_in[1], closest_in[2])
    /\ UNCHANGED <<pipeVars, unit_in, unit_out, closest_in, probe_in, probe_out,
                   cmd_in, cmd_out, transform_out, webVars, envVars>>

NextClosest == ClosestCall

SpecClosest == InitClosest /\ [][NextClosest]_vars

\* a direct call has returned
ClosestCalled == closest_out # NoClosest

\* whether entry k1 of the table is strictly nearer to width / height than
\* entry k2, the differences taken as exact fractions
ExactNearer(width, height, k1, k2) ==
    Abs(width * RatioPairs[k1][2] - RatioPairs[k1][1] * height) * RatioPairs[k2][2]
        < Abs(width * RatioPairs[k2][2] - RatioPairs[k2][1] * height) * RatioPairs[k1][2]

\* the first entry of the table, in its order, at the minimum difference
NearestFirst(width, height) ==
    CHOOSE k \in 1..Len(RatioPairs) :
        /\ \A j \in 1..Len(RatioPairs) : ~ExactNearer(width, height, j, k)
        /\ \A j \in 1..(k - 1) : ExactNearer(width, height, k, j)

\* C12: for every width >= 0 and height > 0 the label returned is the one
\* whose quotient has the minimum absolute difference from width / height,
\* and among labels at the same minimum difference the first in the order
\* 1:1, 4:3, 4:5, 5:4, 16:9, 9:16, 17:9.
Claim_C12 ==
    ClosestCalled =>
        closest_out.ratio_str = RatioLabels[NearestFirst(closest_in[1], closest_in[2])]

\* the place of a label in the table
IndexOf(label) == CHOOSE k \in 1..Len(RatioLabels) : RatioLabels[k] = label

\* C13: whichever label find_closest_aspect_ratio chooses, the target it
\* returns has 360 <= width <= 3840 and 360 <= height <= 2160, both even,
\* and width:height in lowest terms is the chosen ratio exactly.
Thm_C13 ==
    ClosestCalled =>
        LET target_width == closest_out.target[1]
            target_height == closest_out.target[2]
            chosen == RatioPairs[IndexOf(closest_out.ratio_str)]
            g == gcd(target_width, target_height)
        IN  /\ 360 <= target_width /\ target_width <= 3840
            /\ 360 <= target_height /\ target_height <= 2160
            /\ target_width % 2 = 0 /\ target_height % 2 = 0
            /\ <<target_width \div g, target_height \div g>> = chosen

\* 17x9 chooses 17:9, the label with the largest numerator
Wit_C13 ==
    /\ ClosestCalled
    /\ closest_in = <<17, 9>>
    /\ closest_out = [ratio_str |-> "17:9", target |-> <<680, 360>>]

----------------------------------------------------------------------------
(* Direct calls of get_video_metadata on parsed ffprobe output *)

MaxStreams == 3

\* probed video streams: a zero width, a zero height, both; frames already
\* in lowest terms and frames with a common divisor
VideoStreams ==
    { <<0, 0, "h264">>, <<0, 9, "vp9">>, <<16, 0, "h264">>,
      <<16, 9, "vp9">>, <<1920, 1080, "h264">>, <<12, 8, "vp9">>,
      <<1920, 9, "h264">>, <<16, 1080, "vp9">>, <<640, 480, "h264">> }

StreamValues ==
    { [codec_type |-> "video", codec_name |-> v[3], width |-> v[1], height |-> v[2]] :
        v \in VideoStreams }
    \cup { [codec_type |-> "audio", codec_name |-> c, width |-> 0, height |-> 0] :
             c \in {"aac", "opus"} }
    \cup { [codec_type |-> "subtitle", codec_name |-> "mov_text", width |-> 0, height |-> 0] }

StreamLists == UNION { [1..n -> StreamValues] : n \in 0..MaxStreams }

InitProbe ==
    /\ PipelineInit
    /\ unit_in = NoMetadata
    /\ unit_out = NoValidation
    /\ closest_in = <<0, 1>>
    /\ closest_out = NoClosest
    /\ probe_in \in { [streams |-> l, format |-> [duration |-> Seconds(30), size |-> <<1, 0>>]] :
                        l \in StreamLists }
    /\ probe_out = NoProbeResult
    /\ cmd_in = NoPlan
    /\ cmd_out = << >>
    /\ transform_out = NoTransformResult
    /\ WebIdle
    /\ storage = Placeholder

ProbeCall ==
    /\ probe_out = NoProbeResult
    /\ probe_out' = IF RaisesNoVideoStream(probe_in)
                    THEN ProbeResult("raise: No video stream found in file", NoCodecs)
                    ELSE ProbeResult("return", get_video_metadata_of_streams(probe_in))
    /\ UNCHANGED <<pipeVars, unit_in, unit_out, closest_in, closest_out, probe_in,
                   cmd_in, cmd_out, transform_out, webVars, envVars>>

NextProbe == ProbeCall

SpecProbe == InitProbe /\ [][NextProbe]_vars

\* a direct call has returned metadata
ProbeReturned == probe_out.kind = "return"

\* C14: for a probed width > 0 and height > 0 the aspect ratio reported is
\* W:H with W = width / gcd(width, height) and H = height / gcd(width, height),
\* so gcd(W, H) = 1 and W * height = H * width; it is "unknown" exactly when
\* the width or the height is zero.
Thm_C14 ==
    ProbeReturned =>
        LET m == probe_out.metadata
            g == gcd(m.width, m.height)
        IN  /\ (m.width > 0 /\ m.height > 0) =>
                  /\ m.aspect_ratio = <<m.width \div g, m.height \div g>>
                  /\ gcd(m.aspect_ratio[1], m.aspect_ratio[2]) = 1
                  /\ m.aspect_ratio[1] * m.height = m.aspect_ratio[2] * m.width
            /\ (m.aspect_ratio = Unknown) <=> (m.width = 0 \/ m.height = 0)

\* a 1920x1080 stream is reported as 16:9
Wit_C14 ==
    /\ ProbeReturned
    /\ probe_out.metadata.width = 1920
    /\ probe_out.metadata.height = 1080
    /\ probe_out.metadata.aspect_ratio = <<16, 9>>

\* a direct call has returned or raised
ProbeCalled == probe_out # NoProbeResult

\* the places of the streams of a type in the list
StreamsOfType(streams, type) == {i \in 1..Len(streams) : streams[i].codec_type = type}

\* the least place in a non-empty set of places
FirstOf(places) == CHOOSE i \in places : \A j \in places : i <= j

\* C15: for any ordered list of probed streams, width, height and video codec
\* come from the first stream of type video and the audio codec from the
\* first stream of type audio ("none" when there is no audio stream), later
\* streams of each type being ignored; with no video stream the call fails
\* and returns no metadata.
Thm_C15 ==
    ProbeCalled =>
        LET streams == probe_in.streams
            videos == StreamsOfType(streams, "video")
            audios == StreamsOfType(streams, "audio")
            m == probe_out.metadata
        IN  IF videos = {}
            THEN probe_out.kind \notin {"none", "return"} /\ m = NoCodecs
            ELSE /\ probe_out.kind = "return"
                 /\ m.width = streams[FirstOf(videos)].width
                 /\ m.height = streams[FirstOf(videos)].height
                 /\ m.video_codec = streams[FirstOf(videos)].codec_name
                 /\ m.audio_codec = IF audios = {} THEN "none"
                                    ELSE streams[FirstOf(audios)].codec_name

\* an audio stream, then two video streams of different frame size and codec
Wit_C15 ==
    /\ ProbeReturned
    /\ Len(probe_in.streams) = 3
    /\ probe_in.streams[1].codec_type = "audio"
    /\ probe_in.streams[2] = [codec_type |-> "video", codec_name |-> "vp9",
                              width |-> 16, height |-> 9]
    /\ probe_in.streams[3] = [codec_type |-> "video", codec_name |-> "h264",
                              width |-> 1920, height |-> 1080]
    /\ probe_out.metadata.width = 16
    /\ probe_out.metadata.video_codec = "vp9"

----------------------------------------------------------------------------
(* Direct calls of transform_video_with_ffmpeg: the command it builds *)

DictKeys == {"target_resolution", "target_aspect_ratio", "max_duration"}

\* target resolutions: the seven targets of find_closest_aspect_ratio and
\* the docstring's 1920x1080
DictResolutions ==
    { <<360, 360>>, <<480, 360>>, <<360, 450>>, <<450, 360>>, <<640, 360>>,
      <<360, 640>>, <<680, 360>>, <<1920, 1080>> }

DictDurations == {<<MAX_DURATION>>, <<60>>}

FullDicts ==
    { ("target_resolution" :> r) @@ ("target_aspect_ratio" :> a) @@ ("max_duration" :> d) :
        r \in DictResolutions, a \in {<<16, 9>>, <<9, 16>>}, d \in DictDurations }

\* every dictionary with some of the three keys the function reads
TransformationDicts == { [k \in K |-> dict[k]] : dict \in FullDicts, K \in SUBSET DictKeys }

InitCommand ==
    /\ PipelineInit
    /\ unit_in = NoMetadata
    /\ unit_out = NoValidation
    /\ closest_in = <<0, 1>>
    /\ closest_out = NoClosest
    /\ probe_in = NoProbe
    /\ probe_out = NoProbeResult
    /\ cmd_in \in TransformationDicts
    /\ cmd_out = << >>
    /\ transform_out = NoTransformResult
    /\ WebIdle
    /\ storage = Placeholder

\* a whole call: the version check, the command, the run and the look at
\* the output; the tool may leave an output file of any size however it ends
CommandCall ==
    /\ transform_out = NoTransformResult
    /\ \E outcome \in ToolOutcomes, wrote \in BOOLEAN, sz \in FileSizes :
         LET after == IF wrote
                      THEN write(NoFiles, TmpOutput, [EmptyFile EXCEPT !.file_size = sz])
                      ELSE NoFiles
         IN  /\ cmd_out' = IF outcome = "tool_missing" THEN << >>
                           ELSE ffmpeg_cmd(TmpInput, TmpOutput, cmd_in)
             /\ transform_out' =
                    TransformResult(transform_video_with_ffmpeg(outcome, after, TmpOutput),
                                    outcome, after)
    /\ UNCHANGED <<pipeVars, unit_in, unit_out, closest_in, closest_out,
                   probe_in, probe_out, cmd_in, webVars,
                   envVars>>

NextCommand == CommandCall

SpecCommand == InitCommand /\ [][NextCommand]_vars

\* a direct call has built its command
CommandBuilt == cmd_out # << >>

HasOption(cmd, text) == \E i \in 1..Len(cmd) : cmd[i] = Arg(text)

\* the value that follows an option
ValueOf(cmd, text) == cmd[(CHOOSE i \in 1..Len(cmd) : cmd[i] = Arg(text)) + 1]

\* C16: for every transformations dictionary, the argument list has the trim
\* option -t if and only if a maximum duration is set, has the video filter
\* option if and only if a target resolution is set, and when the filter is
\* present the scale stage comes before the pad stage and both use the target
\* width and height.
Claim_C16 ==
    CommandBuilt =>
        /\ HasOption(cmd_out, "-t") <=> ("max_duration" \in DOMAIN cmd_in)
        /\ HasOption(cmd_out, "-vf") <=> ("target_resolution" \in DOMAIN cmd_in)
        /\ HasOption(cmd_out, "-vf") =>
              ValueOf(cmd_out, "-vf").filters =
                  <<scale_filter(cmd_in["target_resolution"][1], cmd_in["target_resolution"][2]),
                    pad_filter(cmd_in["target_resolution"][1], cmd_in["target_resolution"][2])>>

\* a direct call has returned or raised
TransformCalled == transform_out # NoTransformResult

\* C17: the call returns normally only if the tool is present, its run exited
\* with status zero within the 300 s timeout, the output file exists and its
\* size is at most 2 GiB; a missing tool, a timeout, a non-zero exit, a
\* missing output file or an output above 2 GiB each make it raise, the last
\* one although the run itself succeeded.
Thm_C17 ==
    TransformCalled =>
        LET present == exists(transform_out.after, TmpOutput)
            oversized == present /\ SizeGT(transform_out.after[TmpOutput].file_size, <<2048, 0>>)
        IN  /\ transform_out.kind = "ok" =>
                  /\ transform_out.outcome = "exit_zero"
                  /\ present
                  /\ ~oversized
            /\ transform_out.outcome \in {"tool_missing", "timeout", "nonzero_exit"}
                  => transform_out.kind # "ok"
            /\ ~present => transform_out.kind # "ok"
            /\ oversized => transform_out.kind # "ok"

\* a successful run whose output is exactly 2 GiB
Wit_C17 ==
    /\ transform_out.kind = "ok"
    /\ transform_out.outcome = "exit_zero"
    /\ transform_out.after[TmpOutput].file_size = <<2048, 0>>

\* the run has built its plan
PlanBuilt == Len(history) >= 3 /\ history[3] = "Transforming"

\* C18: the plan has a target resolution if and only if the validation
\* reported resolution_too_low, resolution_too_high or invalid_aspect_ratio,
\* find_closest_aspect_ratio being called only when the source aspect ratio
\* is not in the allowed set, and has max duration 7200 if and only if the
\* source duration exceeds 7200 s.
Thm_C18 ==
    /\ closestCalls > 0 => metadata.aspect_ratio \notin VALID_ASPECT_RATIOS
    /\ PlanBuilt =>
          /\ ("target_resolution" \in DOMAIN transformations)
                <=> (\/ HasKind(validation, "resolution_too_low")
                     \/ HasKind(validation, "resolution_too_high")
                     \/ HasKind(validation, "invalid_aspect_ratio"))
          /\ ("max_duration" \in DOMAIN transformations)
                <=> (metadata.duration > 7200 * 1000)
          /\ ("max_duration" \in DOMAIN transformations)
                => transformations["max_duration"] = <<7200>>

\* 1920x1080 at 10000 s: a plan with max duration 7200 and no target
\* resolution
Wit_C18 ==
    /\ PlanBuilt
    /\ metadata.width = 1920 /\ metadata.height = 1080
    /\ metadata.duration = 10000 * 1000
    /\ transformations = ("max_duration" :> <<7200>>)
    /\ closestCalls = 0

\* the run has returned or raised after invoking the transcoder
EndedAfterTranscoding == ffmpegCalls > 0 /\ pc \in {"Done", "Failed", "Rejected"}

\* C19: once the transcoder has been invoked, the original input temp file
\* no longer exists when the run returns or raises, whether the transcoder
\* succeeded, failed, timed out or wrote an oversized output.
Thm_C19 ==
    EndedAfterTranscoding => ~exists(disk, TmpInput)

\* a run that raised out of the transcoder call itself
Wit_C19 ==
    /\ EndedAfterTranscoding
    /\ history = <<"Probing", "Validating", "Transforming", "Failed">>
    /\ ~exists(disk, TmpInput)

\* the run has raised an HTTPException
Raised == pc \in TerminalStates /\ response.kind = "raise"

\* C20: a run ends with HTTP 400 if and only if the validation of the
\* original input reports an unfixable issue, and the detail then carries the
\* messages of the unfixable issues in validator order; every other failure
\* of the processing (probe, transcoder, output still not compliant, any
\* unexpected exception) ends with HTTP 500.
Thm_C20 ==
    /\ Raised => ((response.status = 400) <=> (Validated /\ HasUnfixable(validation)))
    /\ (pc \in TerminalStates /\ Validated /\ HasUnfixable(validation))
          => /\ response.kind = "raise"
             /\ response.status = 400
             /\ LET unfixable == SelectSeq(validation.issues, LAMBDA issue : ~issue.fixable)
                IN  response.messages = [i \in 1..Len(unfixable) |-> unfixable[i].message]
             /\ (HasKind(validation, "duration_too_short") /\ HasKind(validation, "file_too_large"))
                    => /\ Len(response.messages) = 2
                       /\ response.messages[1].text = "Duration {}s below minimum {}s (cannot be fixed)"
                       /\ response.messages[2].text = "File size {}MB exceeds maximum {}MB"
    /\ pc = "Failed" => (response.kind = "raise" /\ response.status = 500)

\* a rejection for both unfixable kinds with a fixable issue among them
Wit_C20 ==
    /\ pc = "Rejected"
    /\ response.status = 400
    /\ Len(response.messages) = 2
    /\ HasFixable(validation)

----------------------------------------------------------------------------
(* main.py: save_persona_to_supabase, lines 54-109 *)

Urls == {"u1", "u2"}

JobId == "job_1"

Sentence == "sentence"

PersonaRow(id, job_id, linkedin_url, prompt) ==
    [id |-> id, job_id |-> job_id, linkedin_url |-> linkedin_url, prompt |-> prompt]

\* lines 81-87: the select on job_id and linkedin_url
select_persona(table, job_id, linkedin_url) ==
    SelectSeq(table, LAMBDA row : row.job_id = job_id /\ row.linkedin_url = linkedin_url)

\* lines 378-380: the select on job_id of the persona_responses endpoint
select_persona_by_job(table, job_id) ==
    SelectSeq(table, LAMBDA row : row.job_id = job_id)

\* lines 91-96: the update of the row with that id
update_persona(table, id, job_id, linkedin_url, prompt) ==
    [n \in 1..Len(table) |->
        IF table[n].id = id THEN PersonaRow(id, job_id, linkedin_url, prompt)
        ELSE table[n]]

\* line 99: the insert, the store giving the row a fresh id
insert_persona(table, job_id, linkedin_url, prompt) ==
    Append(table, PersonaRow(Len(table) + 1, job_id, linkedin_url, prompt))

\* lines 89-99: what one item does to the table once the select has answered
write_persona(table, existing, job_id, linkedin_url, prompt) ==
    IF Len(existing) > 0
    THEN update_persona(table, existing[1].id, job_id, linkedin_url, prompt)
    ELSE insert_persona(table, job_id, linkedin_url, prompt)

\* lines 64-107 from item k on, run without interruption; the items whose
\* url is in failing raise in the store and are skipped
RECURSIVE save_items(_, _, _, _, _, _)
save_items(table, job_id, items, prompt, failing, k) ==
    IF k > Len(items) THEN table
    ELSE IF items[k] \in failing
    THEN save_items(table, job_id, items, prompt, failing, k + 1)
    ELSE save_items(write_persona(table, select_persona(table, job_id, items[k]),
                                  job_id, items[k], prompt),
                    job_id, items, prompt, failing, k + 1)

\* the table after a whole call
save_persona_to_supabase(configured, table, job_id, items, prompt, failing) ==
    IF ~configured THEN table
    ELSE save_items(table, job_id, items, prompt, failing, 1)

----------------------------------------------------------------------------
(* main.py: wait_for_webset_completion, lines 147-192, do_search, lines     *)
(* 220-264, and the search endpoint, lines 267-275.                        *)

\* the statuses a webset reports
Statuses == {"running", "pending", "paused", "idle", "completed"}

\* get_webset_status raised
StatusFailed == "request_failed"

StatusOutcomes == Statuses \cup {StatusFailed}

\* what get_webset_items gives: the urls of the items, or a raise
ItemsResult(ok, data) == [ok |-> ok, data |-> data]

ItemOutcomes ==
    { ItemsResult(FALSE, << >>), ItemsResult(TRUE, << >>),
      ItemsResult(TRUE, <<"u1">>), ItemsResult(TRUE, <<"u1", "u2">>) }

\* a slip that would take a running webset for a finished one
is_terminal_running(status) == status \in {"running", "paused", "idle", "completed"}

\* line 174
is_terminal(status) == status \in {"paused", "idle", "completed"}

\* line 159
loop_continues(since_start, limit) == since_start < limit

\* a slip that would let a failed item fetch end the polling
poll_outcome_unswallowed(status, items) ==
    IF status = StatusFailed \/ ~items.ok THEN "raise"
    ELSE IF is_terminal(status) THEN "return"
    ELSE "sleep"

\* lines 160-188: how one pass of the loop ends
poll_outcome(status, items) ==
    IF status = StatusFailed THEN "raise"
    ELSE IF is_terminal(status) THEN "return"
    ELSE "sleep"

\* lines 166-172 and 176-182: the table after the items of a fetch were saved
after_items(table, items, failing) ==
    IF items.ok /\ Len(items.data) > 0
    THEN save_persona_to_supabase(supabase, table, JobId, items.data, Sentence, failing)
    ELSE table

\* the urls of a fetch whose save raised
unsaved(items, failing) ==
    IF items.ok THEN {items.data[n] : n \in 1..Len(items.data)} \cap failing ELSE {}

\* what one pass of the loop met: the answer of the status request, and
\* whether the fetch of the items, the final fetch (made on a terminal status
\* only) or a save raised; after a failed status request nothing is fetched
Observation(status, items, final_items, failing) ==
    [status |-> status,
     items_failed |-> status # StatusFailed /\ ~items.ok,
     final_failed |-> is_terminal(status) /\ ~final_items.ok,
     save_failed |-> /\ supabase
                     /\ status # StatusFailed
                     /\ \/ unsaved(items, failing) # {}
                        \/ is_terminal(status) /\ unsaved(final_items, failing) # {}]

\* the tables a run may start from: empty, or a row of an earlier search
InitialTables == { << >>, <<PersonaRow(1, JobId, "u1", "earlier")>> }

\* no function of the router is called directly
DirectIdle ==
    /\ unit_in = NoMetadata
    /\ unit_out = NoValidation
    /\ closest_in = <<0, 1>>
    /\ closest_out = NoClosest
    /\ probe_in = NoProbe
    /\ probe_out = NoProbeResult
    /\ cmd_in = NoPlan
    /\ cmd_out = << >>
    /\ transform_out = NoTransformResult
    /\ storage = Placeholder

InitSearch ==
    /\ PipelineInit
    /\ DirectIdle
    /\ supabase \in BOOLEAN
    /\ persona \in InitialTables
    /\ search_response = NoSearchResponse
    /\ task_pc = "idle"
    /\ max_wait_time \in 0..MaxWait
    /\ elapsed = 0
    /\ observed = << >>
    /\ status_requests = 0
    /\ wait_result = NoWaitResult
    /\ task_response = NoSearchResponse
    /\ synced = FALSE
    /\ SaveIdle
    /\ ResponsesIdle

\* lines 267-275: the endpoint queues the task and answers
Search ==
    /\ task_pc = "idle"
    /\ search_response' = SearchResponse(TRUE, << >>, 0, "")
    /\ task_pc' = "queued"
    /\ UNCHANGED <<pipeVars, directVars, envVars, saveVars, respVars, supabase, persona, max_wait_time, elapsed,
                   observed, status_requests, wait_result, task_response, synced>>

\* what the start of do_search can meet
StartOutcomes == {"no_api_key", "create_failed", "no_webset_id", "created"}

\* lines 221-242: the api key, the webset, and the entry into the wait
StartTask ==
    /\ task_pc = "queued"
    /\ \E outcome \in StartOutcomes :
         IF outcome = "created"
         THEN /\ task_pc' = "polling"
              /\ UNCHANGED task_response
         ELSE /\ task_pc' = "finished"
              /\ task_response' = SearchResponse(FALSE, << >>, 0, outcome)
    /\ elapsed' = 0
    /\ UNCHANGED <<pipeVars, directVars, envVars, saveVars, respVars, supabase, persona, search_response,
                   max_wait_time, observed, status_requests, wait_result, synced>>

\* lines 159-188: one pass of the loop
Poll ==
    /\ task_pc = "polling"
    /\ loop_continues(elapsed, max_wait_time)
    /\ status_requests' = status_requests + 1
    /\ \E status \in StatusOutcomes, items \in ItemOutcomes, final_items \in ItemOutcomes,
          failing \in SUBSET Urls, took \in 0..MaxTook :
         LET outcome == poll_outcome(status, items)
             polled == after_items(persona, items, failing)
         IN  /\ elapsed' = elapsed + took + (IF outcome = "sleep" THEN 1 ELSE 0)
             /\ observed' = Append(observed,
                                   Observation(status, items, final_items, failing))
             /\ IF outcome = "raise"
                THEN /\ wait_result' = WaitResult("raise: Error checking webset status",
                                                  WebsetData("none"))
                     /\ task_response' = SearchResponse(FALSE, << >>, 0,
                                                        "Error checking webset status")
                     /\ task_pc' = "finished"
                     /\ UNCHANGED persona
                ELSE /\ IF outcome = "return"
                        THEN /\ persona' = after_items(polled, final_items, failing)
                             /\ wait_result' = WaitResult("return", WebsetData(status))
                             /\ task_pc' = "waited"
                        ELSE /\ persona' = polled
                             /\ UNCHANGED <<wait_result, task_pc>>
                     /\ UNCHANGED task_response
    /\ UNCHANGED <<pipeVars, directVars, envVars, saveVars, respVars, supabase, search_response, max_wait_time, synced>>

\* a slip that would let the task go on after the deadline
Timeout_ignored ==
    /\ task_pc = "polling"
    /\ ~loop_continues(elapsed, max_wait_time)
    /\ wait_result' = WaitResult("raise: TimeoutError", WebsetData("none"))
    /\ task_pc' = "waited"
    /\ UNCHANGED <<pipeVars, directVars, envVars, saveVars, respVars, supabase, persona,
                   search_response, max_wait_time, elapsed, observed, status_requests,
                   task_response, synced>>

\* lines 190-192: the loop condition is false
Timeout ==
    /\ task_pc = "polling"
    /\ ~loop_continues(elapsed, max_wait_time)
    /\ wait_result' = WaitResult("raise: TimeoutError", WebsetData("none"))
    /\ task_response' = SearchResponse(FALSE, << >>, 0, "did not complete")
    /\ task_pc' = "finished"
    /\ UNCHANGED <<pipeVars, directVars, envVars, saveVars, respVars, supabase, persona, search_response,
                   max_wait_time, elapsed, observed, status_requests, synced>>

\* lines 244-264: the final items, the jobs update and the response; without
\* a client the update raises, and the response model refuses items that are
\* not a list of objects
FinishTask ==
    /\ task_pc = "waited"
    /\ \E items \in ItemOutcomes, update_ok \in BOOLEAN, well_formed \in BOOLEAN :
         IF ~items.ok
         THEN /\ task_response' = SearchResponse(FALSE, << >>, 0, "Failed to get webset items")
              /\ UNCHANGED synced
         ELSE IF ~supabase \/ ~update_ok
         THEN /\ task_response' = SearchResponse(FALSE, << >>, 0, "jobs update failed")
              /\ UNCHANGED synced
         ELSE /\ task_response' = IF well_formed
                                  THEN SearchResponse(TRUE, items.data, Len(items.data), "")
                                  ELSE SearchResponse(FALSE, << >>, 0, "validation error")
              /\ synced' = TRUE
    /\ task_pc' = "finished"
    /\ UNCHANGED <<pipeVars, directVars, envVars, saveVars, respVars, supabase, persona, search_response,
                   max_wait_time, elapsed, observed, status_requests, wait_result>>

NextSearch == Search \/ StartTask \/ Poll \/ Timeout \/ FinishTask

\* the task runs once queued, and each request of the wait returns
SpecSearch ==
    /\ InitSearch
    /\ [][NextSearch]_vars
    /\ WF_vars(StartTask) /\ WF_vars(Poll) /\ WF_vars(Timeout) /\ WF_vars(FinishTask)

----------------------------------------------------------------------------
(* Properties of the search task *)

\* the call of wait_for_webset_completion has returned or raised
WaitEnded == wait_result.kind # "none"

\* the statuses the polls of the call have read
ObservedStatuses == {observed[n].status : n \in 1..Len(observed)}

----------------------------------------------------------------------------
(* main.py: calls of save_persona_to_supabase running side by side. The    *)
(* search endpoint is a plain function and do_search a plain background    *)
(* task (lines 267-275), so each request runs its task on a thread of its  *)
(* own, and the calls share nothing but the table.                         *)

\* the item lists of the calls
SaverItems == { <<"u1">>, <<"u1", "u2">>, <<"u2", "u1">> }

\* a call: its items, the item it is at, where it is in lines 81-99, and
\* the answer of its select
Saver(items, k, at, existing) ==
    [items |-> items, k |-> k, at |-> at, existing |-> existing]

\* lines 64, 105-107: on to the next item, or out of the loop
next_item(saver) ==
    Saver(saver.items, saver.k + 1,
          IF saver.k + 1 > Len(saver.items) THEN "done" ELSE "select", << >>)

InitSave ==
    /\ PipelineInit
    /\ DirectIdle
    /\ SearchIdle
    /\ ResponsesIdle
    /\ supabase \in BOOLEAN
    /\ persona \in InitialTables
    /\ savers \in [1..MaxSavers -> {Saver(items, 1, "select", << >>) : items \in SaverItems}]

\* lines 58-60: without a client the call returns at once
SkipSave(t) ==
    /\ ~supabase
    /\ savers[t].at = "select"
    /\ savers' = [savers EXCEPT ![t] = Saver(@.items, @.k, "done", << >>)]
    /\ UNCHANGED <<pipeVars, directVars, envVars, searchVars, respVars, supabase, persona>>

\* lines 81-87: the select of one item; when it raises the item is skipped
Select(t) ==
    /\ supabase
    /\ savers[t].at = "select"
    /\ \E raised \in BOOLEAN :
         savers' = [savers EXCEPT ![t] =
                       IF raised THEN next_item(@)
                       ELSE Saver(@.items, @.k, "write",
                                  select_persona(persona, JobId, @.items[@.k]))]
    /\ UNCHANGED <<pipeVars, directVars, envVars, searchVars, respVars, supabase, persona>>

\* lines 89-107: the update or the insert the select's answer calls for
Write(t) ==
    /\ savers[t].at = "write"
    /\ \E raised \in BOOLEAN :
         persona' = IF raised THEN persona
                    ELSE write_persona(persona, savers[t].existing, JobId,
                                       savers[t].items[savers[t].k], Sentence)
    /\ savers' = [savers EXCEPT ![t] = next_item(@)]
    /\ UNCHANGED <<pipeVars, directVars, envVars, searchVars, respVars, supabase>>

NextSave == \E t \in 1..MaxSavers : SkipSave(t) \/ Select(t) \/ Write(t)

SpecSave == InitSave /\ [][NextSave]_vars

\* the number of rows of the table with a job_id and a linkedin_url
RowsOf(job_id, linkedin_url) ==
    Cardinality({n \in 1..Len(persona) :
                    /\ persona[n].job_id = job_id
                    /\ persona[n].linkedin_url = linkedin_url})

\* C22: whatever the interleaving of the calls of save_persona_to_supabase,
\* the persona table never holds more than one row with the same job_id and
\* linkedin_url.
Claim_C22 ==
    \A linkedin_url \in Urls : RowsOf(JobId, linkedin_url) <= 1

----------------------------------------------------------------------------
(* Properties of the planning of the target resolution *)

\* the first validation met a probed height of zero and nothing unfixable
ZeroHeightFixable == Validated /\ metadata.height = 0 /\ ~HasUnfixable(validation)

\* C23: when the probed metadata has height 0 (its aspect ratio is then
\* "unknown") and the validation reports no unfixable issue, the run calls
\* find_closest_aspect_ratio, whose division raises: the run ends with a 500,
\* the input file deleted and the transcoder never invoked.
Thm_C23 ==
    ZeroHeightFixable
    => /\ metadata.aspect_ratio = Unknown
       /\ closestCalls = 1
       /\ history = <<"Probing", "Validating", "Failed">>
       /\ pc = "Failed"
       /\ response.kind = "raise"
       /\ response.status = 500
       /\ ~exists(disk, TmpInput)
       /\ Surviving = {}
       /\ ffmpegCalls = 0

\* a run that failed on a probed frame of 200x0
Wit_C23 ==
    /\ ZeroHeightFixable
    /\ metadata.width = 200
    /\ pc = "Failed"
    /\ response.status = 500

\* the frame size the claim gives for each ratio label
FixedTargets ==
    "1:1" :> <<360, 360>> @@ "4:3" :> <<480, 360>> @@ "4:5" :> <<360, 450>> @@
    "5:4" :> <<450, 360>> @@ "16:9" :> <<640, 360>> @@ "9:16" :> <<360, 640>> @@
    "17:9" :> <<680, 360>>

\* the label of an allowed ratio
LabelOf(ratio) == RatioLabels[CHOOSE k \in 1..Len(RatioPairs) : RatioPairs[k] = ratio]

\* the ratio label the run chose for its resize: the ratio of the source when
\* it is allowed, the one find_closest_aspect_ratio picked otherwise
ChosenLabel ==
    IF metadata.aspect_ratio \in VALID_ASPECT_RATIOS
    THEN LabelOf(metadata.aspect_ratio)
    ELSE find_closest_aspect_ratio(metadata.width, metadata.height).ratio_str

\* the run has just planned a resize
ResizePlanned == pc = "Transforming" /\ "target_resolution" \in DOMAIN transformations

----------------------------------------------------------------------------
(* Properties of the fetch *)

\* the run ended in the handlers of lines 500-507
FetchFailed == pc = "FetchFailed"

\* C25: when the fetch fails the run ends before any probe, validation or
\* transcoder invocation and leaves no temp file, with a 501 when the fetch
\* raised NotImplementedError and a 500 for any other failure; the fetch of
\* the source being a placeholder that always raises NotImplementedError,
\* every run with it ends in a 501.
Thm_C25 ==
    /\ FetchFailed
       => /\ ffprobeCalls = 0
          /\ ~Validated
          /\ ffmpegCalls = 0
          /\ history = << >>
          /\ created = {}
          /\ disk = NoFiles
          /\ response.kind = "raise"
          /\ response.status \in {501, 500}
          /\ (response.status = 501
              <=> response.detail = "Video blob fetching not yet implemented")
          /\ (response.status = 500 <=> response.detail = "Failed to fetch video")
    /\ storage = Placeholder
       => /\ pc \in {"Idle", "FetchFailed"}
          /\ (pc = "FetchFailed" => response.status = 501)
          /\ (pc = "Idle" => response = NoResponse)

\* the second run in a row that the placeholder ended with a 501
Wit_C25 ==
    /\ storage = Placeholder
    /\ FetchFailed
    /\ runs = 2
    /\ response.status = 501

----------------------------------------------------------------------------
(* Properties of the error handling of the polling *)

\* the wait ended with the exception of line 188
StatusRaised == wait_result.kind = "raise: Error checking webset status"

\* the last pass of the loop
LastObserved == observed[Len(observed)]

\* a pass met a failure of the item fetch, of the final fetch or of a save
Swallowed(pass) == pass.items_failed \/ pass.final_failed \/ pass.save_failed

\* C26: a failed status request ends the polling at once with an error and is
\* never retried: it is the last request of the call. A failure to fetch or
\* to save items in a pass is swallowed: how the pass ends, and what the call
\* returns, depend on the status read alone.
Thm_C26 ==
    /\ [](status_requests = Len(observed))
    /\ [](\A n \in 1..(Len(observed) - 1) : observed[n].status \in {"running", "pending"})
    /\ [](StatusRaised <=> (Len(observed) > 0 /\ LastObserved.status = StatusFailed))
    /\ [](StatusRaised => task_pc = "finished" /\ ~task_response.success)
    /\ [][StatusRaised => status_requests' = status_requests]_vars
    /\ [][Len(observed') = Len(observed) + 1
          => LET pass == observed'[Len(observed')]
             IN  /\ pass.status \in {"running", "pending"}
                    => task_pc' = "polling" /\ wait_result' = NoWaitResult
                 /\ pass.status \in {"paused", "idle", "completed"}
                    => /\ task_pc' = "waited"
                       /\ wait_result' = WaitResult("return", WebsetData(pass.status))]_vars

\* a call that returned the completed webset although the item fetch of its
\* first pass, and a save and the final fetch of its second, had failed
Wit_C26 ==
    /\ wait_result = WaitResult("return", WebsetData("completed"))
    /\ Len(observed) = 2
    /\ observed[1].items_failed
    /\ observed[2].save_failed
    /\ observed[2].final_failed

----------------------------------------------------------------------------
(* Properties of the search endpoint and its background task *)

\* C27: the search endpoint answers success = true with saved_personas_count
\* = 0 before do_search has run, and its answer never depends on the task;
\* do_search never raises: it always ends by returning a SearchResponse, with
\* success = false for every failure; it writes personas_synced_at only after
\* wait_for_webset_completion returned on a terminal status, never after a
\* timeout or an error of the wait.
Thm_C27 ==
    /\ [](task_pc # "idle"
          => /\ search_response.success
             /\ search_response.saved_personas_count = 0
             /\ search_response.items = << >>)
    /\ [][task_pc = "idle" /\ task_pc' # "idle"
          => task_pc' = "queued" /\ task_response' = NoSearchResponse]_vars
    /\ [](task_pc = "finished"
          => /\ task_response # NoSearchResponse
             /\ (wait_result.kind # "return" => ~task_response.success)
             /\ (task_response.success => synced))
    /\ [](task_pc # "finished" => task_response = NoSearchResponse)
    /\ [](synced
          => /\ wait_result.kind = "return"
             /\ LastObserved.status \in {"paused", "idle", "completed"})
    /\ [][synced' /\ ~synced => task_pc = "waited"]_vars
    /\ [](wait_result.kind \in {"raise: TimeoutError",
                                "raise: Error checking webset status"}
          => ~synced /\ task_pc = "finished" /\ ~task_response.success)

\* a task that wrote personas_synced_at and returned two items, the endpoint
\* having answered a count of 0
Wit_C27 ==
    /\ task_pc = "finished"
    /\ synced
    /\ task_response.success
    /\ task_response.saved_personas_count = 2
    /\ search_response.success
    /\ search_response.saved_personas_count = 0

----------------------------------------------------------------------------
(* main.py: the persona_responses endpoint, lines 331-469 *)

\* the persona table of a job with n personas
PersonaTable(n) ==
    [id \in 1..n |-> PersonaRow(id, JobId, IF id = 1 THEN "u1" ELSE "u2", Sentence)]

\* lines 350-375: how the lookup of the job and of its ad can go
LookupOutcomes == {"found", "job_missing", "no_ad", "ad_missing", "error"}

\* a generate_persona_response coroutine: where it is, and how its LLM call
\* went
Coroutine(at, llm) == [at |-> at, llm |-> llm]

\* the coroutines have all returned or raised
AllEnded(tasks) == \A id \in DOMAIN tasks : tasks[id].at \in {"returned", "raised"}

\* lines 450-453: the results that are dicts with success, and the exceptions
successes(tasks) == {id \in DOMAIN tasks : tasks[id].at = "returned"}

failures(tasks) == {id \in DOMAIN tasks : tasks[id].at = "raised"}

\* a slip that would gather without return_exceptions: the first exception
\* leaves the try block and becomes a 500
gather_response_failfast(tasks) ==
    IF failures(tasks) # {} THEN ResponsesResult(500, 0, 0, 0)
    ELSE ResponsesResult(200, Len(tasks), Cardinality(successes(tasks)), 0)

\* lines 444-461: the answer once asyncio.gather has every result
gather_response(tasks) ==
    ResponsesResult(200, Len(tasks), Cardinality(successes(tasks)),
                    Cardinality(failures(tasks)))

InitResponses ==
    /\ PipelineInit
    /\ DirectIdle
    /\ SearchIdle
    /\ SaveIdle
    /\ supabase \in BOOLEAN
    /\ anthropic_client \in BOOLEAN
    /\ persona \in {PersonaTable(n) : n \in 0..MaxPersonas}
    /\ resp_pc = "idle"
    /\ coroutines = << >>
    /\ persona_responses = << >>
    /\ resp_response = NoResponsesResult

\* lines 336-388 and 443-447: the checks, the lookups, and the coroutines
\* handed to asyncio.gather
PersonaResponses ==
    /\ resp_pc = "idle"
    /\ \E lookup \in LookupOutcomes, select_ok \in BOOLEAN :
         LET personas == select_persona_by_job(persona, JobId)
             status_code ==
                 IF ~supabase \/ ~anthropic_client THEN 500
                 ELSE IF lookup = "error" THEN 500
                 ELSE IF lookup # "found" THEN 404
                 ELSE IF ~select_ok THEN 500
                 ELSE IF Len(personas) = 0 THEN 404
                 ELSE 200
         IN  IF status_code = 200
             THEN /\ coroutines' = [id \in 1..Len(personas) |-> Coroutine("created", "none")]
                  /\ resp_pc' = "gathering"
                  /\ UNCHANGED resp_response
             ELSE /\ resp_response' = ResponsesResult(status_code, 0, 0, 0)
                  /\ resp_pc' = "done"
                  /\ UNCHANGED coroutines
    /\ UNCHANGED <<pipeVars, directVars, envVars, searchVars, saveVars, supabase, persona,
                   anthropic_client, persona_responses>>

\* lines 392-418: a coroutine runs up to its await of the LLM call
CallLLM(id) ==
    /\ resp_pc = "gathering"
    /\ id \in DOMAIN coroutines
    /\ coroutines[id].at = "created"
    /\ coroutines' = [coroutines EXCEPT ![id] = Coroutine("awaiting", "none")]
    /\ UNCHANGED <<pipeVars, directVars, envVars, searchVars, saveVars, supabase, persona,
                   anthropic_client, resp_pc, persona_responses, resp_response>>

\* lines 414-441: the LLM call answers or raises; after an answer the
\* coroutine inserts its row, without an await in between, and returns, or
\* the insert raises
Resume(id) ==
    /\ resp_pc = "gathering"
    /\ id \in DOMAIN coroutines
    /\ coroutines[id].at = "awaiting"
    /\ \E llm_ok \in BOOLEAN, insert_ok \in BOOLEAN :
         IF ~llm_ok
         THEN /\ coroutines' = [coroutines EXCEPT ![id] = Coroutine("raised", "failed")]
              /\ UNCHANGED persona_responses
         ELSE IF ~insert_ok
         THEN /\ coroutines' = [coroutines EXCEPT ![id] = Coroutine("raised", "answered")]
              /\ UNCHANGED persona_responses
         ELSE /\ coroutines' = [coroutines EXCEPT ![id] = Coroutine("returned", "answered")]
              /\ persona_responses' = Append(persona_responses, id)
    /\ UNCHANGED <<pipeVars, directVars, envVars, searchVars, saveVars, supabase, persona,
                   anthropic_client, resp_pc, resp_response>>

\* lines 444-461: asyncio.gather has every result, the endpoint answers
Gather ==
    /\ resp_pc = "gathering"
    /\ AllEnded(coroutines)
    /\ resp_response' = gather_response(coroutines)
    /\ resp_pc' = "done"
    /\ UNCHANGED <<pipeVars, directVars, envVars, searchVars, saveVars, supabase, persona,
                   anthropic_client, coroutines, persona_responses>>

NextResponses ==
    \/ PersonaResponses
    \/ \E id \in 1..MaxPersonas : CallLLM(id) \/ Resume(id)
    \/ Gather

SpecResponses == InitResponses /\ [][NextResponses]_vars

----------------------------------------------------------------------------
(* Properties of the persona_responses endpoint *)

\* the request was answered with the counts of lines 455-461
Answered == resp_pc = "done" /\ resp_response.status_code = 200

\* the personas of the job
PersonasOfJob == {n \in 1..Len(persona) : persona[n].job_id = JobId}

\* the persona ids of the rows of persona_responses
RowIds == {persona_responses[n] : n \in 1..Len(persona_responses)}

\* C28: every answered persona_responses request over a job with N personas
\* has successful_responses + failed_responses = N; a request that got to
\* its personas is always answered so, whichever of the LLM calls and
\* inserts failed: every persona's coroutine ran to its end, and those whose
\* call and insert succeeded are the successes; a persona_responses row is
\* inserted only after the LLM call of its persona succeeded.
Thm_C28 ==
    /\ Answered
       => /\ resp_response.total_personas = Cardinality(PersonasOfJob)
          /\ resp_response.successful_responses + resp_response.failed_responses
               = Cardinality(PersonasOfJob)
          /\ resp_response.successful_responses = Len(persona_responses)
          /\ \A id \in PersonasOfJob :
               /\ coroutines[id].llm # "none"
               /\ (id \in RowIds <=> coroutines[id].at = "returned")
    /\ (resp_pc = "done" /\ coroutines # << >>) => Answered
    /\ \A n \in 1..Len(persona_responses) :
         /\ coroutines[persona_responses[n]].llm = "answered"
         /\ \A k \in 1..Len(persona_responses) : k # n => persona_responses[k] # persona_responses[n]

\* a request over three personas answered with one success and two
\* failures, the first persona's LLM call and the second's insert having
\* failed before the third persona's row was inserted
Wit_C28 ==
    /\ Answered
    /\ resp_response.total_personas = 3
    /\ resp_response.successful_responses = 1
    /\ resp_response.failed_responses = 2
    /\ coroutines[1] = Coroutine("raised", "failed")
    /\ coroutines[2] = Coroutine("raised", "answered")
    /\ persona_responses = <<3>>

====
